---------------------------- MODULE Spec2Model ----------------------------
(***************************************************************************)
(* fuzzy_match.py: two CSV files are read into two lists of names, every   *)
(* name of list A (app_names) is compared with the names of list B         *)
(* (ai_names) by exact, containment and similarity matching, and a report  *)
(* is printed.                                                             *)
(*                                                                         *)
(* A Python str is modelled as a sequence of one-character strings.        *)
(* Three specifications share the variables:                               *)
(*   SpecLoad   Loader A, one step per character of a row;                 *)
(*   SpecMatch  the matcher loop, one step per name of list A, and the     *)
(*              report;                                                    *)
(*   SpecRatio  difflib.SequenceMatcher(None, a, b).ratio() on a pair.     *)
(***************************************************************************)
EXTENDS Integers, Sequences, FiniteSets, TLC

VARIABLES
    pc,              \* position of the script
    file,            \* f.readlines() of public/applications.csv
    lines,           \* lines = f.readlines()[1:]
    ln,              \* number of lines the for loop has taken
    line,            \* the loop variable of line 8
    pos,             \* position of `for char in line` (1-based, next char)
    parts,           \* parts
    current,         \* current
    in_quotes,       \* in_quotes
    raised,          \* TRUE once an IndexError has propagated
    app_names,       \* list A
    ai_names,        \* list B
    idx,             \* number of names of list A the matcher has processed
    app_clean,       \* app_clean of the last iteration
    matched_apps,    \* matched_apps
    unmatched_apps,  \* unmatched_apps
    out,             \* what the report printed
    ra, rb,          \* SpecRatio: the two arguments of SequenceMatcher
    m_ab, m_ba       \* SpecRatio: ratio(ra, rb) and ratio(rb, ra), as <<num, den>>

vars == <<pc, file, lines, ln, line, pos, parts, current, in_quotes, raised,
          app_names, ai_names, idx, app_clean, matched_apps, unmatched_apps,
          out, ra, rb, m_ab, m_ba>>

loaderVars  == <<file, lines, ln, line, pos, parts, current, in_quotes, raised>>
matcherVars == <<ai_names, idx, app_clean, matched_apps, unmatched_apps, out>>
ratioVars   == <<ra, rb, m_ab, m_ba>>

---------------------------------------------------------------------------
(* Bounds of the model.                                                   *)

\* SpecLoad: rows of a file built from RowBodies.
MaxRows == 2
\* SpecLoad: length of the single row of a file drawn from every string
\* over SplitChars.
MaxRowLen == 5
\* SpecMatch: lengths of list A and of list B.
MaxA == 2
MaxB == 2
\* SpecRatio: length of each argument, over RatioChars.
MaxRatioLen == 6

---------------------------------------------------------------------------
(* Characters and str methods.                                            *)

QUOTE     == "\""
BACKSLASH == "\\"
COMMA     == ","
SPACE     == " "
NEWLINE   == "\n"

\* The characters of the model in code point order (ord): str comparison,
\* and so sorted(), compares code points.
Ascii ==
    <<"\n", " ", "\"", "(", ")", ",", "-", ".",
      "0", "1", "2", "3", "4", "5", "6", "7", "8", "9", ":", ">",
      "A", "B", "C", "D", "E", "X", "Z", "\\",
      "a", "b", "c", "d", "e", "i", "l", "m", "r", "s", "t", "x", "y", "z">>

Ord(c) == CHOOSE i \in DOMAIN Ascii : Ascii[i] = c

\* str.lower() on one character.
LowerChar(c) ==
    CASE c = "A" -> "a"
      [] c = "B" -> "b"
      [] c = "C" -> "c"
      [] c = "D" -> "d"
      [] c = "E" -> "e"
      [] c = "X" -> "x"
      [] c = "Z" -> "z"
      [] OTHER   -> c

\* s.lower()
Lower(s) == [i \in DOMAIN s |-> LowerChar(s[i])]

\* The whitespace str.strip() removes, among the characters of the model.
Whitespace == {SPACE, NEWLINE}

\* s.strip(chars): leading and trailing characters of cs removed.
StripChars(s, cs) ==
    LET keep == {i \in DOMAIN s : s[i] \notin cs}
    IN  IF keep = {} THEN <<>>
        ELSE LET lo == CHOOSE i \in keep : \A j \in keep : i <= j
                 hi == CHOOSE i \in keep : \A j \in keep : j <= i
             IN  SubSeq(s, lo, hi)

\* s.strip()
Strip(s) == StripChars(s, Whitespace)

\* sub in s
Contains(sub, s) ==
    \E i \in 0..(Len(s) - Len(sub)) : SubSeq(s, i + 1, i + Len(sub)) = sub

\* s < t for str: lexicographic by code point, a proper prefix first.
StrLess(s, t) ==
    \E k \in 0..Len(s) :
        /\ k <= Len(t)
        /\ \A i \in 1..k : s[i] = t[i]
        /\ \/ (k = Len(s) /\ k < Len(t))
           \/ (k < Len(s) /\ k < Len(t) /\ Ord(s[k + 1]) < Ord(t[k + 1]))

\* Every string over cs of length at most n.
RECURSIVE StringsUpTo(_, _)
StringsUpTo(cs, n) ==
    IF n = 0 THEN {<<>>}
    ELSE LET shorter == StringsUpTo(cs, n - 1)
         IN  shorter \cup {Append(s, c) : s \in shorter, c \in cs}

\* Every sequence over S of length at most n.
RECURSIVE SeqsUpTo(_, _)
SeqsUpTo(S, n) ==
    IF n = 0 THEN {<<>>}
    ELSE LET shorter == SeqsUpTo(S, n - 1)
         IN  shorter \cup {Append(s, x) : s \in shorter, x \in S}

---------------------------------------------------------------------------
(* difflib.SequenceMatcher(None, a, b).ratio(), line 65.  isjunk is None   *)
(* and the names are far shorter than the 200 elements at which autojunk   *)
(* starts, so no element of b is junk or popular.  Positions are 1-based,  *)
(* ranges are lo..hi-1 as in difflib.                                      *)

\* Length of the common run of a[i..ahi-1] and b[j..bhi-1].
RECURSIVE RunLen(_, _, _, _, _, _)
RunLen(a, b, i, j, ahi, bhi) ==
    IF i < ahi /\ j < bhi /\ a[i] = b[j]
    THEN 1 + RunLen(a, b, i + 1, j + 1, ahi, bhi)
    ELSE 0

\* find_longest_match with a plausible slip: the first matching position,
\* not the longest block.
FindFirstMatch(a, b, alo, ahi, blo, bhi) ==
    LET starts == {p \in (alo..(ahi - 1)) \X (blo..(bhi - 1)) : a[p[1]] = b[p[2]]}
    IN  IF starts = {} THEN <<alo, blo, 0>>
        ELSE LET i == CHOOSE x \in {p[1] : p \in starts} :
                          \A p \in starts : x <= p[1]
                 j == CHOOSE y \in {p[2] : p \in {q \in starts : q[1] = i}} :
                          \A p \in {q \in starts : q[1] = i} : y <= p[2]
             IN  <<i, j, 1>>

\* find_longest_match(alo, ahi, blo, bhi): <<i, j, k>> with a[i..i+k-1] =
\* b[j..j+k-1], k maximal; of the maximal blocks the one starting earliest
\* in a, and of those the one starting earliest in b; <<alo, blo, 0>> when
\* nothing matches.
FindLongestMatch(a, b, alo, ahi, blo, bhi) ==
    LET starts == {p \in (alo..(ahi - 1)) \X (blo..(bhi - 1)) : a[p[1]] = b[p[2]]}
        len(p) == RunLen(a, b, p[1], p[2], ahi, bhi)
        lens   == {len(p) : p \in starts}
    IN  IF starts = {} THEN <<alo, blo, 0>>
        ELSE LET k    == CHOOSE x \in lens : \A y \in lens : y <= x
                 best == {p \in starts : len(p) = k}
                 i    == CHOOSE x \in {p[1] : p \in best} : \A p \in best : x <= p[1]
                 j    == CHOOSE y \in {p[2] : p \in best} :
                            /\ <<i, y>> \in best
                            /\ \A p \in best : p[1] = i => y <= p[2]
             IN  <<i, j, k>>

\* Sum of the sizes of get_matching_blocks(): the longest block, then the
\* same to its left and to its right.
RECURSIVE MatchCount(_, _, _, _, _, _)
MatchCount(a, b, alo, ahi, blo, bhi) ==
    LET m == FindLongestMatch(a, b, alo, ahi, blo, bhi)
    IN  IF m[3] = 0 THEN 0
        ELSE m[3]
             + (IF alo < m[1] /\ blo < m[2]
                THEN MatchCount(a, b, alo, m[1], blo, m[2]) ELSE 0)
             + (IF m[1] + m[3] < ahi /\ m[2] + m[3] < bhi
                THEN MatchCount(a, b, m[1] + m[3], ahi, m[2] + m[3], bhi) ELSE 0)

\* ratio(): 2.0 * matches / (len(a) + len(b)), and 1.0 for two empty
\* strings; as the fraction <<numerator, denominator>>.
Ratio(a, b) ==
    IF Len(a) + Len(b) = 0 THEN <<1, 1>>
    ELSE <<2 * MatchCount(a, b, 1, Len(a) + 1, 1, Len(b) + 1), Len(a) + Len(b)>>

\* The threshold with a plausible slip: >= for >.
AtLeastThreshold(r) == 10 * r[1] >= 8 * r[2]

\* similarity > 0.8 (line 66).  The quotient of two small integers rounds
\* to the double 0.8 exactly when it is 4/5, so the comparison of doubles
\* is the comparison of fractions.
ExceedsThreshold(r) == 10 * r[1] > 8 * r[2]

---------------------------------------------------------------------------
(* Values of the variables a specification does not use.                  *)

LoaderIdle ==
    /\ file = <<>> /\ lines = <<>> /\ ln = 0 /\ line = <<>> /\ pos = 1
    /\ parts = <<>> /\ current = <<>> /\ in_quotes = FALSE /\ raised = FALSE

MatcherIdle ==
    /\ ai_names = <<>> /\ idx = 0 /\ app_clean = <<>>
    /\ matched_apps = <<>> /\ unmatched_apps = <<>> /\ out = <<>>

RatioIdle ==
    /\ ra = <<>> /\ rb = <<>> /\ m_ab = <<1, 1>> /\ m_ba = <<1, 1>>

---------------------------------------------------------------------------
(* SpecRatio: the similarity of a pair, in both argument orders.          *)

RatioChars == {"a", "b"}

InitRatio ==
    /\ pc = "ratio"
    /\ ra \in StringsUpTo(RatioChars, MaxRatioLen)
    /\ rb \in StringsUpTo(RatioChars, MaxRatioLen)
    /\ m_ab = <<1, 1>> /\ m_ba = <<1, 1>>
    /\ app_names = <<>>
    /\ LoaderIdle /\ MatcherIdle

\* difflib.SequenceMatcher(None, x.lower(), y.lower()).ratio(), for
\* (x, y) = (ra, rb) and for (x, y) = (rb, ra).
ComputeRatio ==
    /\ pc = "ratio"
    /\ m_ab' = Ratio(Lower(ra), Lower(rb))
    /\ m_ba' = Ratio(Lower(rb), Lower(ra))
    /\ pc' = "ratio_done"
    /\ UNCHANGED <<ra, rb, app_names, loaderVars, matcherVars>>

NextRatio == ComputeRatio

SpecRatio == InitRatio /\ [][NextRatio]_vars

---------------------------------------------------------------------------
(* SpecLoad: Loader A, lines 5-28.                                         *)

\* The header row: a row that would give a name were it not skipped.
HeaderLine == <<"x", ",", "x", ",", "x", ",", "x", "\n">>

\* Rows without their line end.
RowBodies ==
    { <<>>,                                                  \* blank
      <<" ">>,                                               \* blank
      <<"a", ",", "b", ",", "c">>,                           \* 3 fields
      <<"a", ",", "b", ",", "c", ",", "Z", "d">>,            \* name Zd
      <<"a", ",", "b", ",", "c", ",", ",", "e">>,            \* 4th field empty
      <<"a", ",", "\"", "b", ",", "c", "\"", ",", "d">>,     \* 3 fields
      <<",", ",", ",", "\"", "a", ",", "b", "\"">> }         \* name a,b"

\* readlines() of a file of the rows, the last line with or without its
\* line end.
FileOf(rows, final_newline) ==
    <<HeaderLine>> \o
    [i \in 1..Len(rows) |->
        IF i = Len(rows) /\ ~final_newline THEN rows[i]
        ELSE Append(rows[i], NEWLINE)]

\* The characters of the rows every string over which is tried.
SplitChars == {"a", COMMA, QUOTE, BACKSLASH, SPACE}

Files ==
    {<<>>}
    \cup {FileOf(rows, TRUE) : rows \in SeqsUpTo(RowBodies, MaxRows)}
    \cup {FileOf(rows, FALSE) :
            rows \in {r \in SeqsUpTo(RowBodies, MaxRows) :
                        r # <<>> /\ r[Len(r)] # <<>>}}
    \cup {FileOf(<<row>>, TRUE) : row \in StringsUpTo(SplitChars, MaxRowLen)}

InitLoad ==
    /\ pc = "open"
    /\ file \in Files
    /\ lines = <<>> /\ ln = 0 /\ line = <<>> /\ pos = 1
    /\ parts = <<>> /\ current = <<>> /\ in_quotes = FALSE /\ raised = FALSE
    /\ app_names = <<>>
    /\ MatcherIdle /\ RatioIdle

\* lines = f.readlines()[1:]; app_names = []  (lines 6-7)
ReadLines ==
    /\ pc = "open"
    /\ lines' = SubSeq(file, 2, Len(file))
    /\ app_names' = <<>>
    /\ pc' = "line"
    /\ UNCHANGED <<file, ln, line, pos, parts, current, in_quotes, raised,
                   matcherVars, ratioVars>>

\* for line in lines: a line with line.strip() empty is passed over
\* (lines 8, 10).
SkipBlank ==
    /\ pc = "line"
    /\ ln < Len(lines)
    /\ Strip(lines[ln + 1]) = <<>>
    /\ line' = lines[ln + 1]
    /\ ln' = ln + 1
    /\ UNCHANGED <<pc, file, lines, pos, parts, current, in_quotes, raised,
                   app_names, matcherVars, ratioVars>>

\* for line in lines: parts = []; current = ""; in_quotes = False
\* (lines 8-14).
NextLine ==
    /\ pc = "line"
    /\ ln < Len(lines)
    /\ Strip(lines[ln + 1]) # <<>>
    /\ line' = lines[ln + 1]
    /\ ln' = ln + 1
    /\ parts' = <<>>
    /\ current' = <<>>
    /\ in_quotes' = FALSE
    /\ pos' = 1
    /\ pc' = "scan"
    /\ UNCHANGED <<file, lines, raised, app_names, matcherVars, ratioVars>>

\* The quote test with a plausible slip: the backslash is not looked at.
QuoteAlwaysToggles(cur) == TRUE

\* not current or current[-1] != '\\'  (line 16)
QuoteToggles(cur) == IF cur = <<>> THEN TRUE ELSE cur[Len(cur)] # BACKSLASH

\* current.strip('"') with a plausible slip: nothing is stripped.
KeepQuotes(s) == s

\* current.strip('"')  (lines 19, 23)
StripQuotes(s) == StripChars(s, {QUOTE})

\* char == '"' and (not current or current[-1] != '\\'): the flag is
\* toggled and the quote is kept in current (lines 16-17, 22).
ScanQuote ==
    /\ pc = "scan"
    /\ pos <= Len(line)
    /\ line[pos] = QUOTE /\ QuoteToggles(current)
    /\ in_quotes' = ~in_quotes
    /\ current' = Append(current, line[pos])
    /\ pos' = pos + 1
    /\ UNCHANGED <<pc, file, lines, ln, line, parts, raised, app_names,
                   matcherVars, ratioVars>>

\* char == ',' and not in_quotes: the field ends (lines 18-21).
ScanComma ==
    /\ pc = "scan"
    /\ pos <= Len(line)
    /\ ~(line[pos] = QUOTE /\ QuoteToggles(current))
    /\ line[pos] = COMMA /\ ~in_quotes
    /\ parts' = Append(parts, StripQuotes(current))
    /\ current' = <<>>
    /\ pos' = pos + 1
    /\ UNCHANGED <<pc, file, lines, ln, line, in_quotes, raised, app_names,
                   matcherVars, ratioVars>>

\* Any other character, an escaped quote and a comma inside quotes
\* included: current += char  (line 22).
ScanOther ==
    /\ pc = "scan"
    /\ pos <= Len(line)
    /\ ~(line[pos] = QUOTE /\ QuoteToggles(current))
    /\ ~(line[pos] = COMMA /\ ~in_quotes)
    /\ current' = Append(current, line[pos])
    /\ pos' = pos + 1
    /\ UNCHANGED <<pc, file, lines, ln, line, parts, in_quotes, raised,
                   app_names, matcherVars, ratioVars>>

\* The length guard with a plausible slip: off by one.
HasThreeParts(ps) == Len(ps) > 2

\* len(parts) > 3  (line 25)
HasNameColumn(ps) == Len(ps) > 3

\* The end of the row: the last field is appended; with more than 3 fields
\* the 4th, stripped, is appended to app_names unless it is empty
\* (lines 23-28).  parts[3] raises IndexError on a list of fewer than 4.
EndLine ==
    /\ pc = "scan"
    /\ pos > Len(line)
    /\ LET all == Append(parts, StripQuotes(current))
       IN  /\ parts' = all
           /\ IF HasNameColumn(all)
              THEN IF Len(all) < 4
                   THEN /\ raised' = TRUE
                        /\ pc' = "crashed"
                        /\ UNCHANGED app_names
                   ELSE /\ app_names' =
                              IF Strip(all[4]) # <<>>
                              THEN Append(app_names, Strip(all[4]))
                              ELSE app_names
                        /\ pc' = "line"
                        /\ UNCHANGED raised
              ELSE /\ pc' = "line"
                   /\ UNCHANGED <<raised, app_names>>
    /\ UNCHANGED <<file, lines, ln, line, pos, current, in_quotes,
                   matcherVars, ratioVars>>

\* The for loop of line 8 is exhausted.
LoadDone ==
    /\ pc = "line"
    /\ ln = Len(lines)
    /\ pc' = "loaded"
    /\ UNCHANGED <<file, lines, ln, line, pos, parts, current, in_quotes,
                   raised, app_names, matcherVars, ratioVars>>

NextLoad ==
    \/ ReadLines
    \/ SkipBlank
    \/ NextLine
    \/ ScanQuote
    \/ ScanComma
    \/ ScanOther
    \/ EndLine
    \/ LoadDone

SpecLoad == InitLoad /\ [][NextLoad]_vars

---------------------------------------------------------------------------
(* A row read by position, for the statements about Loader A.             *)

\* The quote at position j of row toggles the flag: it is not preceded by
\* a backslash.
Toggles(row, j) ==
    /\ row[j] = QUOTE
    /\ IF j = 1 THEN TRUE ELSE row[j - 1] # BACKSLASH

\* The flag when the character at position i is met.
InsideQuotes(row, i) ==
    Cardinality({j \in 1..(i - 1) : Toggles(row, j)}) % 2 = 1

\* The positions of the commas met outside quotes.
OutsideCommas(row) ==
    {i \in DOMAIN row : row[i] = COMMA /\ ~InsideQuotes(row, i)}

NumFields(row) == Cardinality(OutsideCommas(row)) + 1

\* The position that ends field n: the n-th comma outside quotes, 0 for
\* n = 0 and the position after the row for the last field.
FieldEnd(row, n) ==
    IF n = 0 THEN 0
    ELSE IF n >= NumFields(row) THEN Len(row) + 1
    ELSE CHOOSE c \in OutsideCommas(row) :
            Cardinality({d \in OutsideCommas(row) : d <= c}) = n

\* The text of field n, quotes and all.
RawField(row, n) == SubSeq(row, FieldEnd(row, n - 1) + 1, FieldEnd(row, n) - 1)

\* The row gives a name: not blank, at least 4 fields, and a 4th field
\* that is not empty once its quotes and then its whitespace are stripped.
NameOf(row) == StripChars(StripChars(RawField(row, 4), {QUOTE}), Whitespace)
GivesName(row) ==
    /\ StripChars(row, Whitespace) # <<>>
    /\ NumFields(row) >= 4
    /\ NameOf(row) # <<>>

\* The names of rows 2..n+1 of the file (the first n rows after the
\* header), in row order.
RECURSIVE ExpectedNames(_)
ExpectedNames(n) ==
    IF n = 0 THEN <<>>
    ELSE ExpectedNames(n - 1) \o
         (IF GivesName(file[n + 1]) THEN <<NameOf(file[n + 1])>> ELSE <<>>)

\* The rows the loader has finished.
RowsDone == IF pc = "scan" THEN ln - 1 ELSE ln

\* The loop is between rows and `line` is a row that was split.
RowSplit == pc \in {"line", "loaded"} /\ ln > 0 /\ Strip(line) # <<>>

---------------------------------------------------------------------------
(* Statements about Loader A.                                             *)

\* C5, as amended: the loader never raises on a row, and app_names is, in
\* row order, one name for each row after the header that is not blank,
\* has at least 4 fields and whose 4th field is not empty after stripping;
\* every other row gives nothing.
LoaderSkipsSilently ==
    /\ ~raised
    /\ pc # "crashed"
    /\ pc \in {"line", "scan", "loaded"} => app_names = ExpectedNames(RowsDone)

\* C5, witness: a file whose rows are a row of fewer than 4 fields, a
\* blank row or a row with an empty 4th field, next to a row that gave a
\* name.
LoaderSkippedARow ==
    /\ pc = "loaded"
    /\ Len(app_names) = 1
    /\ Len(lines) = 2
    /\ \E i \in DOMAIN lines : Strip(lines[i]) # <<>> /\ NumFields(lines[i]) < 4

\* C5, as stated: one name for each row after the header that is not
\* blank and has at least 4 fields.
OneNamePerWideRow ==
    pc = "loaded" =>
        Len(app_names) =
            Cardinality({i \in 2..Len(file) :
                Strip(file[i]) # <<>> /\ NumFields(file[i]) >= 4})

\* C6: while a row is scanned the flag is the parity of the quotes not
\* preceded by a backslash, the fields ended so far are as many as the
\* commas met outside quotes, and current is the row since the last such
\* comma (a comma inside quotes stays in it); once the row is split it
\* has one field more than it has commas outside quotes, each field the
\* text between two of them with its surrounding quotes stripped.
SplitterFollowsQuotes ==
    /\ pc = "scan" =>
          LET met == {c \in OutsideCommas(line) : c < pos}
          IN  /\ in_quotes = InsideQuotes(line, pos)
              /\ Len(parts) = Cardinality(met)
              /\ current = SubSeq(line, FieldEnd(line, Cardinality(met)) + 1, pos - 1)
    /\ RowSplit =>
          /\ Len(parts) = NumFields(line)
          /\ \A n \in DOMAIN parts :
                parts[n] = StripChars(RawField(line, n), {QUOTE})

\* C6, witness: a split row with a comma inside quotes, a quote after a
\* backslash and a comma outside quotes.
SplitQuotedComma ==
    /\ RowSplit
    /\ Len(parts) = 2
    /\ \E i \in DOMAIN line : line[i] = COMMA /\ InsideQuotes(line, i)
    /\ \E j \in DOMAIN line : line[j] = QUOTE /\ ~Toggles(line, j)

\* C7, as amended: no field value begins or ends with a quote character.
FieldsHaveNoSurroundingQuote ==
    \A n \in DOMAIN parts :
        parts[n] = <<>> \/ (parts[n][1] # QUOTE /\ parts[n][Len(parts[n])] # QUOTE)

\* C7, witness: a field whose text was quoted and whose value is the text
\* between the quotes.
QuotedFieldStripped ==
    /\ RowSplit
    /\ \E n \in DOMAIN parts :
          LET raw == RawField(line, n)
          IN  /\ Len(raw) >= 3
              /\ raw[1] = QUOTE /\ raw[Len(raw)] = QUOTE
              /\ parts[n] = SubSeq(raw, 2, Len(raw) - 1)

\* C7, as stated: no field value contains a quote character.
FieldsHaveNoQuote ==
    \A n \in DOMAIN parts : \A i \in DOMAIN parts[n] : parts[n][i] # QUOTE

---------------------------------------------------------------------------
(* SpecMatch: the matcher loop and the report, lines 41-84.               *)

\* Names of list A as Loader A leaves them: not empty, no surrounding
\* whitespace; a quote may remain at an end.
PoolA ==
    { <<"A", "b", "c", "d">>,
      <<"a", "b", "c", "d", "\"">>,
      <<"a", "b", "c">>,
      <<"a", "b">>,
      <<"Z", "x">>,
      <<"\"">> }

\* Names of list B: not empty, no surrounding whitespace.
PoolB ==
    { <<"A", "B", "C", "D">>,
      <<"a", "b", "c", "d", "e">>,
      <<"x", "a", "b", "c", "d", "x">>,
      <<"a", "b", "x", "c">>,
      <<"a", "b", "c">> }

InitMatch ==
    /\ pc = "match"
    /\ app_names \in SeqsUpTo(PoolA, MaxA)
    /\ ai_names \in SeqsUpTo(PoolB, MaxB)
    /\ idx = 0
    /\ app_clean = <<>>
    /\ matched_apps = <<>>
    /\ unmatched_apps = <<>>
    /\ out = <<>>
    /\ LoaderIdle /\ RatioIdle

\* app.strip(' "')  (line 45)
AppClean(app) == StripChars(app, {SPACE, QUOTE})

\* The exact test with a plausible slip: the case is not folded.
ExactMatchCased(a, ais) == \E j \in DOMAIN ais : a = ais[j]

\* any(app_clean.lower() == ai.lower() for ai in ai_names)  (line 48)
ExactMatch(a, ais) == \E j \in DOMAIN ais : Lower(a) = Lower(ais[j])

\* app_clean.lower() in ai.lower() or ai.lower() in app_clean.lower()
\* (line 58)
ContainsEither(a, ai) ==
    Contains(Lower(a), Lower(ai)) \/ Contains(Lower(ai), Lower(a))

\* The length gate with a plausible slip: 2 for 3.
LongerThanTwo(a, ai) == Len(a) > 2 /\ Len(ai) > 2

\* len(app_clean) > 3 and len(ai) > 3  (line 59)
LongEnough(a, ai) == Len(a) > 3 /\ Len(ai) > 3

\* difflib.SequenceMatcher(None, app_clean.lower(), ai.lower()).ratio()
\* (line 65)
Similarity(a, ai) == Ratio(Lower(a), Lower(ai))

Digits == <<"0", "1", "2", "3", "4", "5", "6", "7", "8", "9">>

\* f"{similarity:.2f}": the ratio rounded to hundredths, a tie to the even
\* hundredth.  (A tie of the fraction is a tie of the double only when the
\* double is exact, as for 7/8; the other ties, odd multiples of 1/200
\* with a denominator divisible by 5, need 80 characters in the two names
\* together.)
Fixed2(r) ==
    LET q == (100 * r[1]) \div r[2]
        m == (100 * r[1]) % r[2]
        h == IF 2 * m > r[2] \/ (2 * m = r[2] /\ q % 2 = 1) THEN q + 1 ELSE q
    IN  <<Digits[(h \div 100) + 1], ".",
          Digits[((h \div 10) % 10) + 1], Digits[(h % 10) + 1]>>

Arrow    == <<" ", "-", ">", " ">>
SimOpen  == <<" ", "(", "s", "i", "m", "i", "l", "a", "r", "i", "t", "y", ":", " ">>
SimClose == <<")">>

\* f"{app_clean} -> {ai}"  (line 60)
FormatContained(a, ai) == a \o Arrow \o ai

\* f"{app_clean} -> {ai} (similarity: {similarity:.2f})"  (line 67)
FormatSimilar(a, ai, r) == a \o Arrow \o ai \o SimOpen \o Fixed2(r) \o SimClose

\* The loop with a plausible slip: the similarity is tested before the
\* containment.
RECURSIVE SimilarityFirstLoop(_, _, _)
SimilarityFirstLoop(a, ais, j) ==
    IF j > Len(ais) THEN <<>>
    ELSE IF ExceedsThreshold(Similarity(a, ais[j]))
         THEN <<FormatSimilar(a, ais[j], Similarity(a, ais[j]))>>
         ELSE IF ContainsEither(a, ais[j]) /\ LongEnough(a, ais[j])
              THEN <<FormatContained(a, ais[j])>>
              ELSE SimilarityFirstLoop(a, ais, j + 1)

\* for ai in ai_names, from position j on (lines 56-69): <<entry>> for the
\* entry appended to matched_apps at the break, <<>> when the loop ends
\* without one.
RECURSIVE FuzzyLoop(_, _, _)
FuzzyLoop(a, ais, j) ==
    IF j > Len(ais) THEN <<>>
    ELSE IF ContainsEither(a, ais[j]) /\ LongEnough(a, ais[j])
         THEN <<FormatContained(a, ais[j])>>
         ELSE IF ExceedsThreshold(Similarity(a, ais[j]))
              THEN <<FormatSimilar(a, ais[j], Similarity(a, ais[j]))>>
              ELSE FuzzyLoop(a, ais, j + 1)

\* The exact branch with a plausible slip: no `continue`, the fuzzy loop
\* runs as well.
MatchExactNoContinue ==
    /\ pc = "match"
    /\ idx < Len(app_names)
    /\ LET a == AppClean(app_names[idx + 1])
           f == FuzzyLoop(a, ai_names, 1)
       IN  /\ ExactMatch(a, ai_names)
           /\ app_clean' = a
           /\ matched_apps' = Append(matched_apps, a) \o f
           /\ unmatched_apps' =
                 IF f = <<>> THEN Append(unmatched_apps, a) ELSE unmatched_apps
    /\ idx' = idx + 1
    /\ UNCHANGED <<pc, app_names, ai_names, out, loaderVars, ratioVars>>

\* One iteration of the loop of line 44 that ends at the `continue` of
\* line 52: some name of B equals app_clean after lower-casing.
MatchExact ==
    /\ pc = "match"
    /\ idx < Len(app_names)
    /\ LET a == AppClean(app_names[idx + 1])
       IN  /\ ExactMatch(a, ai_names)
           /\ app_clean' = a
           /\ matched_apps' = Append(matched_apps, a)
    /\ idx' = idx + 1
    /\ UNCHANGED <<pc, app_names, ai_names, unmatched_apps, out,
                   loaderVars, ratioVars>>

\* One iteration that ends at a `break` of the inner loop (lines 55-69).
MatchFuzzy ==
    /\ pc = "match"
    /\ idx < Len(app_names)
    /\ LET a == AppClean(app_names[idx + 1])
       IN  /\ ~ExactMatch(a, ai_names)
           /\ FuzzyLoop(a, ai_names, 1) # <<>>
           /\ app_clean' = a
           /\ matched_apps' = Append(matched_apps, FuzzyLoop(a, ai_names, 1)[1])
    /\ idx' = idx + 1
    /\ UNCHANGED <<pc, app_names, ai_names, unmatched_apps, out,
                   loaderVars, ratioVars>>

\* One iteration whose inner loop ends without a break (lines 71-72).
NoMatch ==
    /\ pc = "match"
    /\ idx < Len(app_names)
    /\ LET a == AppClean(app_names[idx + 1])
       IN  /\ ~ExactMatch(a, ai_names)
           /\ FuzzyLoop(a, ai_names, 1) = <<>>
           /\ app_clean' = a
           /\ unmatched_apps' = Append(unmatched_apps, a)
    /\ idx' = idx + 1
    /\ UNCHANGED <<pc, app_names, ai_names, matched_apps, out,
                   loaderVars, ratioVars>>

\* sorted() with a plausible slip: the list as it is.
Unsorted(s) == s

\* sorted(unmatched_apps)  (line 78)
Sorted(s) == SortSeq(s, StrLess)

\* fuzzy_matches[:10]  (line 83)
MaxShown == 10

\* [m for m in matched_apps if " -> " in m]  (line 82)
FuzzyMatches(ms) == SelectSeq(ms, LAMBDA m : Contains(Arrow, m))

\* The report (lines 74-84): the three counts, the unmatched names sorted,
\* and the first 10 fuzzy matches.
Report ==
    /\ pc = "match"
    /\ idx = Len(app_names)
    /\ out' = [ total     |-> Len(app_names),
                matched   |-> Len(matched_apps),
                unmatched |-> Len(unmatched_apps),
                names     |-> Sorted(unmatched_apps),
                fuzzy     |-> SubSeq(FuzzyMatches(matched_apps), 1,
                                     IF Len(FuzzyMatches(matched_apps)) < MaxShown
                                     THEN Len(FuzzyMatches(matched_apps))
                                     ELSE MaxShown) ]
    /\ pc' = "done"
    /\ UNCHANGED <<app_names, ai_names, idx, app_clean, matched_apps,
                   unmatched_apps, loaderVars, ratioVars>>

NextMatch ==
    \/ MatchExact
    \/ MatchFuzzy
    \/ NoMatch
    \/ Report

SpecMatch == InitMatch /\ [][NextMatch]_vars

---------------------------------------------------------------------------
(* Statements about the matcher.  In a step of the loop of line 44 the    *)
(* name taken is app_names[idx'], and A below is that name stripped.      *)

\* The step takes the next name of list A.
TakesName == idx' = idx + 1

\* The name the step takes, stripped of surrounding spaces and quotes.
Taken == StripChars(app_names[idx'], {SPACE, QUOTE})

\* B equals A after lower-casing.
SameFolded(a, b) == Lower(a) = Lower(b)

\* One of A and B contains the other after lower-casing, and both are
\* longer than 3 characters.
GatedContainment(a, b) ==
    /\ Contains(Lower(a), Lower(b)) \/ Contains(Lower(b), Lower(a))
    /\ Len(a) > 3 /\ Len(b) > 3

\* The similarity ratio of the lower-cased names is above 0.80.
Above80(a, b) ==
    LET r == Ratio(Lower(a), Lower(b)) IN 5 * r[1] > 4 * r[2]

\* s begins with p.
BeginsWith(s, p) == Len(p) <= Len(s) /\ SubSeq(s, 1, Len(p)) = p

\* The step records entry e as a match and nothing as unmatched.
RecordsMatch(e) ==
    /\ matched_apps' = Append(matched_apps, e)
    /\ unmatched_apps' = unmatched_apps

\* The step records A as unmatched and nothing as a match.
RecordsUnmatched(a) ==
    /\ unmatched_apps' = Append(unmatched_apps, a)
    /\ matched_apps' = matched_apps

\* C1: when some name of B, anywhere in B, equals A after lower-casing,
\* the step records the bare name A as a match, whatever the earlier
\* names of B are.
ExactIsRecordedBare ==
    [][ TakesName =>
          ((\E j \in DOMAIN ai_names : SameFolded(Taken, ai_names[j]))
              => RecordsMatch(Taken)) ]_vars

\* C1, witness: A was recorded bare although the name of B that equals it
\* after lower-casing, in another case, is the second of B and the first
\* of B contains A, both longer than 3 characters.
ExactBehindContainment ==
    /\ idx >= 1
    /\ Len(ai_names) = 2
    /\ app_clean = AppClean(app_names[idx])
    /\ SameFolded(app_clean, ai_names[2]) /\ app_clean # ai_names[2]
    /\ ~SameFolded(app_clean, ai_names[1])
    /\ GatedContainment(app_clean, ai_names[1])
    /\ matched_apps # <<>>
    /\ matched_apps[Len(matched_apps)] = app_clean

\* C2: when A has no exact match and the step records a match, the entry
\* names the first B, in B's order, with gated containment or a ratio
\* above 0.80; it is 'A -> B' without a score when that B has gated
\* containment, and 'A -> B (similarity: ...' otherwise.
FirstQualifyingIsReported ==
    [][ (/\ TakesName
         /\ matched_apps' # matched_apps
         /\ \A j \in DOMAIN ai_names : ~SameFolded(Taken, ai_names[j]))
        =>
        /\ Len(matched_apps') = Len(matched_apps) + 1
        /\ SubSeq(matched_apps', 1, Len(matched_apps)) = matched_apps
        /\ unmatched_apps' = unmatched_apps
        /\ \E j \in DOMAIN ai_names :
              /\ \A k \in 1..(j - 1) :
                    /\ ~GatedContainment(Taken, ai_names[k])
                    /\ ~Above80(Taken, ai_names[k])
              /\ IF GatedContainment(Taken, ai_names[j])
                 THEN matched_apps'[Len(matched_apps')] =
                          Taken \o Arrow \o ai_names[j]
                 ELSE /\ Above80(Taken, ai_names[j])
                      /\ BeginsWith(matched_apps'[Len(matched_apps')],
                                    Taken \o Arrow \o ai_names[j] \o SimOpen)
                      /\ matched_apps'[Len(matched_apps')]
                             [Len(matched_apps'[Len(matched_apps')])] = ")" ]_vars

\* C2, witness: A was recorded as 'A -> B' without a score for the first
\* of B, which contains it, although the second of B has a higher ratio,
\* above 0.80.
ContainmentBeforeBetterScore ==
    /\ idx >= 1
    /\ Len(ai_names) = 2
    /\ app_clean = AppClean(app_names[idx])
    /\ \A j \in DOMAIN ai_names : ~SameFolded(app_clean, ai_names[j])
    /\ GatedContainment(app_clean, ai_names[1])
    /\ Above80(app_clean, ai_names[2])
    /\ LET r1 == Ratio(Lower(app_clean), Lower(ai_names[1]))
           r2 == Ratio(Lower(app_clean), Lower(ai_names[2]))
       IN  r1[1] * r2[2] < r2[1] * r1[2]
    /\ matched_apps # <<>>
    /\ matched_apps[Len(matched_apps)] = app_clean \o Arrow \o ai_names[1]

\* A and B are related by containment after lower-casing and one of them
\* has 3 or fewer characters.
ShortContainment(a, b) ==
    /\ Contains(Lower(a), Lower(b)) \/ Contains(Lower(b), Lower(a))
    /\ Len(a) <= 3 \/ Len(b) <= 3

\* C3, as stated: for A and B with containment and a name of 3 or fewer
\* characters, no 'A -> B' entry, with or without a score, is recorded.
ShortContainmentNeverFuzzy ==
    \A i \in 1..idx : \A j \in DOMAIN ai_names :
        LET a == StripChars(app_names[i], {SPACE, QUOTE})
            b == ai_names[j]
        IN  ShortContainment(a, b) =>
                \A k \in DOMAIN matched_apps :
                    /\ matched_apps[k] # a \o Arrow \o b
                    /\ ~BeginsWith(matched_apps[k], a \o Arrow \o b \o SimOpen)

\* C3, as amended: for such A and B no 'A -> B' entry without a score is
\* recorded, and one with a score only when the shorter name has exactly
\* 3 characters and the longer exactly 4; so a containment with a name of
\* 2 or fewer characters records no 'A -> B' entry at all.
ShortContainmentOnlyBySimilarity ==
    \A i \in 1..idx : \A j \in DOMAIN ai_names :
        LET a == StripChars(app_names[i], {SPACE, QUOTE})
            b == ai_names[j]
        IN  ShortContainment(a, b) =>
                \A k \in DOMAIN matched_apps :
                    /\ matched_apps[k] # a \o Arrow \o b
                    /\ BeginsWith(matched_apps[k], a \o Arrow \o b \o SimOpen)
                         => {Len(a), Len(b)} = {3, 4}

\* C3, witness: A of 2 characters is contained in the only name of B and
\* was recorded as unmatched.
TwoCharSubstringUnmatched ==
    /\ idx >= 1
    /\ Len(ai_names) = 1
    /\ app_clean = AppClean(app_names[idx])
    /\ Len(app_clean) = 2
    /\ Contains(Lower(app_clean), Lower(ai_names[1]))
    /\ unmatched_apps # <<>>
    /\ unmatched_apps[Len(unmatched_apps)] = app_clean

\* C4: the step records A as unmatched exactly when every name of B
\* differs from A after lower-casing, has no gated containment with A and
\* has a ratio with A of at most 0.80; otherwise unmatched_apps is left as
\* it is.
UnmatchedIffNoneQualifies ==
    [][ TakesName =>
          LET none == \A j \in DOMAIN ai_names :
                         /\ ~SameFolded(Taken, ai_names[j])
                         /\ ~GatedContainment(Taken, ai_names[j])
                         /\ LET r == Ratio(Lower(Taken), Lower(ai_names[j]))
                            IN  5 * r[1] <= 4 * r[2]
          IN  IF none THEN RecordsUnmatched(Taken)
              ELSE unmatched_apps' = unmatched_apps ]_vars

\* C4, witness: A was recorded as unmatched next to a name of B whose
\* ratio with A is exactly 0.80.
UnmatchedAtExactly80 ==
    /\ idx >= 1
    /\ app_clean = AppClean(app_names[idx])
    /\ \E j \in DOMAIN ai_names :
          LET r == Ratio(Lower(app_clean), Lower(ai_names[j]))
          IN  5 * r[1] = 4 * r[2]
    /\ unmatched_apps # <<>>
    /\ unmatched_apps[Len(unmatched_apps)] = app_clean

\* The number of times x occurs in s.
Count(s, x) == Cardinality({i \in DOMAIN s : s[i] = x})

OneResultPerName ==
    /\ [](Len(matched_apps) + Len(unmatched_apps) = idx)
    /\ [](pc = "done" =>
            /\ out.total = Len(app_names)
            /\ out.matched = Len(matched_apps)
            /\ out.unmatched = Len(unmatched_apps)
            /\ out.matched + out.unmatched = out.total)
    /\ [][ /\ app_names' = app_names
           /\ ai_names' = ai_names
           /\ TakesName =>
                 \/ /\ Len(matched_apps') = Len(matched_apps) + 1
                    /\ SubSeq(matched_apps', 1, Len(matched_apps)) = matched_apps
                    /\ unmatched_apps' = unmatched_apps
                 \/ RecordsUnmatched(Taken) ]_vars

\* C10, witness: list A holds the same name twice and the report counts
\* two matches.
DuplicateCountedTwice ==
    /\ pc = "done"
    /\ Len(app_names) = 2
    /\ app_names[1] = app_names[2]
    /\ out.matched = 2 /\ out.total = 2

---------------------------------------------------------------------------
(* Statements about the similarity ratio.                                 *)

\* C9, as stated: ratio(A, B) equals ratio(B, A).
RatioIsSymmetric ==
    pc = "ratio_done" => m_ab = m_ba

\* The consequence C9 draws: swapping the arguments never changes whether
\* the pair is above 0.80.  (It does for aaabaa and abaaba.)
SwapKeepsThreshold ==
    pc = "ratio_done" => (5 * m_ab[1] > 4 * m_ab[2] <=> 5 * m_ba[1] > 4 * m_ba[2])

\* C9, as amended: ratio(A, B) equals ratio(B, A) when one of the names
\* contains the other or both have at most 2 characters, and swapping the
\* arguments does not change whether the pair is above 0.80 when the two
\* names have at most 11 characters together.
RatioIsSymmetricWhenContained ==
    pc = "ratio_done" =>
        /\ (\/ Contains(Lower(ra), Lower(rb))
            \/ Contains(Lower(rb), Lower(ra))
            \/ (Len(ra) <= 2 /\ Len(rb) <= 2))
              => m_ab = m_ba
        /\ Len(ra) + Len(rb) <= 11
              => (5 * m_ab[1] > 4 * m_ab[2] <=> 5 * m_ba[1] > 4 * m_ba[2])

\* C9, witness: the ratio of a name of 3 or more characters and a longer
\* name that contains it other than at its start is above 0.80 in both
\* orders.
ContainedPairAbove80 ==
    /\ pc = "ratio_done"
    /\ Len(ra) >= 3 /\ Len(rb) > Len(ra)
    /\ Contains(ra, rb) /\ ~BeginsWith(rb, ra)
    /\ 5 * m_ab[1] > 4 * m_ab[2]
    /\ 5 * m_ba[1] > 4 * m_ba[2]

===========================================================================
